---- MODULE Spec2Model ----
(***************************************************************************)
(* BreatheAware Flask API (src/flask_app.py): the inference-and-fusion     *)
(* layer.  The module-level start-up code loads three model artifacts;     *)
(* POST /predict classifies a six-pollutant JSON object; GET /live-aqi     *)
(* fetches the provider's components, renames them and classifies them     *)
(* through predict_aqi_internal.                                           *)
(*                                                                         *)
(* Numbers are exact decimals [m, e] standing for m * 10^(-e), kept        *)
(* normalised (no trailing fractional zero).  JSON strings are sequences   *)
(* of one-character strings over the alphabet digits, ".", "+", "-", " "   *)
(* and the letters a, b, c.                                                *)
(***************************************************************************)
EXTENDS Integers, Sequences, FiniteSets, TLC

VARIABLES
    model,            \* module global: the classifier artifact
    label_encoder,    \* module global: the label decoder artifact
    feature_names,    \* module global: the feature-name artifact
    AQI_INFO,         \* module global: the category catalog (a dict)
    pc,               \* "boot", "idle", "awaiting_provider", "done"
    req,              \* the request (or direct call) being served
    provider,         \* what requests.get produced for the live request
    prediction_data,  \* the dict handed to predict_aqi_internal
    events,           \* collaborator calls made while serving req, in order
    resp,             \* the HTTP response of the request
    ret               \* the value returned by a direct call

vars == <<model, label_encoder, feature_names, AQI_INFO, pc, req, provider,
          prediction_data, events, resp, ret>>

\* Largest whole-number reading offered as a JSON number.
MaxReading == 1
\* Largest number of keys of a request object that depart from the reading 0.
MaxVaried == 2

----------------------------------------------------------------------------
\* Python values

None == [k |-> "none"]
Loaded(name) == [k |-> "artifact", name |-> name]

\* `not x` for the artifacts: None is falsy, a loaded artifact is truthy.
Truthy(x) == x.k # "none"

\* body(x) for x = e: a local name for a value computed once.
Let(e, body(_)) == CHOOSE r \in {body(x) : x \in {e}} : TRUE

Ok(v) == [ok |-> TRUE, val |-> v]
Raise(t, msg) == [ok |-> FALSE, exc |-> t, msg |-> msg]

JNum(m, e) == [k |-> "num", m |-> m, e |-> e]
JStr(chars) == [k |-> "str", s |-> chars]
JNull == [k |-> "null"]

RECURSIVE Normalize(_, _)
Normalize(m, e) ==
    IF e > 0 /\ m % 10 = 0 THEN Normalize(m \div 10, e - 1)
    ELSE [m |-> m, e |-> e]

RECURSIVE Join(_)
Join(chars) ==
    IF chars = <<>> THEN "" ELSE Head(chars) \o Join(Tail(chars))

Digits == <<"0", "1", "2", "3", "4", "5", "6", "7", "8", "9">>
IsDigit(c) == \E i \in 1..Len(Digits) : Digits[i] = c
DigitVal(c) == (CHOOSE i \in 1..Len(Digits) : Digits[i] = c) - 1

RECURSIVE StripLeft(_)
StripLeft(s) ==
    IF s # <<>> /\ Head(s) = " " THEN StripLeft(Tail(s)) ELSE s

RECURSIVE StripRight(_)
StripRight(s) ==
    IF s # <<>> /\ s[Len(s)] = " " THEN StripRight(SubSeq(s, 1, Len(s) - 1))
    ELSE s

\* The digits of s (the "." skipped) read as one natural number.
RECURSIVE Mantissa(_, _)
Mantissa(s, acc) ==
    IF s = <<>> THEN acc
    ELSE IF Head(s) = "." THEN Mantissa(Tail(s), acc)
    ELSE Mantissa(Tail(s), acc * 10 + DigitVal(Head(s)))

\* float(str): surrounding blanks stripped, an optional sign, then digits
\* with at most one ".", at least one digit.
ParseFloat(chars) ==
    LET t == StripRight(StripLeft(chars))
        signed == t # <<>> /\ Head(t) \in {"+", "-"}
        body == IF signed THEN Tail(t) ELSE t
        dots == {i \in 1..Len(body) : body[i] = "."}
        digs == {i \in 1..Len(body) : IsDigit(body[i])}
        wellFormed == /\ Cardinality(dots) <= 1
                      /\ Cardinality(digs) >= 1
                      /\ Cardinality(dots) + Cardinality(digs) = Len(body)
        frac == IF dots = {} THEN 0
                ELSE Len(body) - (CHOOSE i \in dots : TRUE)
        mag == Mantissa(body, 0)
        neg == signed /\ Head(t) = "-"
    IN  IF wellFormed
        THEN Ok(Normalize(IF neg THEN 0 - mag ELSE mag, frac))
        ELSE Raise("ValueError",
                   "could not convert string to float: '" \o Join(chars) \o "'")

\* float(x) for a JSON value x.
PyFloat(v) ==
    CASE v.k = "num" -> Ok(Normalize(v.m, v.e))
      [] v.k = "str" -> ParseFloat(v.s)
      [] OTHER -> Raise("TypeError",
            "float() argument must be a string or a real number, not 'NoneType'")

\* dict.get(key, default)
DictGet(d, key, default) == IF key \in DOMAIN d THEN d[key] ELSE default

----------------------------------------------------------------------------
\* Arrays: the shape is all the classifier looks at before predicting.

\* A Python list of n scalars as numpy sees it.
PyListOfScalars(xs) == [shape |-> <<Len(xs)>>, data |-> xs]
\* [a]: a one-element list holding the array-like a; numpy adds an axis.
PyListOf(a) == [shape |-> <<1>> \o a.shape, data |-> a.data]
\* np.array(x)
np_array(a) == a

Ndim(a) == Len(a.shape)

----------------------------------------------------------------------------
\* The collaborators: classifier and label decoder

\* Expected pollutant values, in the order the classifier was trained on.
required_fields == <<"pm25", "pm10", "no2", "so2", "co", "o3">>

\* The labels the decoder holds, in LabelEncoder's sorted order.
EncoderClasses ==
    <<"Good", "Hazardous", "Moderate", "Unhealthy",
      "Unhealthy for Sensitive Groups", "Very Unhealthy">>

\* Probabilities are binary floats.  The model holds the ones that are whole
\* multiples of 1/ProbaUnit: k stands for the float k / ProbaUnit, which is
\* exact, and so is its product with 100.
ProbaUnit == 2^10

\* Per-class probability vectors, each summing to 1 (the second rounds up,
\* the third is a tie at 28.125).
ProbaVectors ==
    { <<1024, 0, 0, 0, 0, 0>>,
      <<525, 499, 0, 0, 0, 0>>,
      <<288, 184, 184, 184, 184, 0>>,
      <<171, 171, 171, 171, 170, 170>> }

\* What the classifier may answer for one row: a label index and the row's
\* probabilities.
ClassifierOutputs ==
    [idx : 0..(Len(EncoderClasses) - 1), proba : ProbaVectors]

\* The input validation of the classifier: a two-dimensional matrix whose
\* rows have one column per trained feature.
CheckArray(X) ==
    IF Ndim(X) >= 3
    THEN Raise("ValueError",
               "Found array with dim 3. RandomForestClassifier expected <= 2.")
    ELSE IF Ndim(X) < 2
    THEN Raise("ValueError", "Expected 2D array, got 1D array instead")
    ELSE IF X.shape[2] # Len(required_fields)
    THEN Raise("ValueError", "X has a wrong number of features")
    ELSE Ok(X)

\* model.predict(X): one label index per row.
model_predict(X, out) ==
    IF ~Truthy(model)
    THEN Raise("AttributeError", "'NoneType' object has no attribute 'predict'")
    ELSE IF ~CheckArray(X).ok THEN CheckArray(X)
    ELSE Ok([r \in 1..X.shape[1] |-> out.idx])

\* model.predict_proba(X): one probability vector per row.
model_predict_proba(X, out) ==
    IF ~Truthy(model)
    THEN Raise("AttributeError",
               "'NoneType' object has no attribute 'predict_proba'")
    ELSE IF ~CheckArray(X).ok THEN CheckArray(X)
    ELSE Ok([r \in 1..X.shape[1] |-> out.proba])

\* label_encoder.inverse_transform(ys)
inverse_transform(ys) ==
    IF ~Truthy(label_encoder)
    THEN Raise("AttributeError",
               "'NoneType' object has no attribute 'inverse_transform'")
    ELSE Ok([i \in 1..Len(ys) |-> EncoderClasses[ys[i] + 1]])

SeqMax(xs) == CHOOSE x \in {xs[i] : i \in 1..Len(xs)} :
                  \A j \in 1..Len(xs) : xs[j] <= x

\* n / d rounded to the nearest integer, ties to even (Python's round on a
\* value held exactly).
RoundHalfEven(n, d) ==
    LET q == n \div d
        r == n % d
    IN  IF 2 * r > d THEN q + 1
        ELSE IF 2 * r < d THEN q
        ELSE IF q % 2 = 0 THEN q ELSE q + 1

\* round(max(p) * 100, 1) for p in units of 1/ProbaUnit: max(p) * 100 is the
\* exact float 100 * k / ProbaUnit, and round gives the nearest number with
\* one decimal, an exact tie going to the even digit.
Confidence(p) == Normalize(RoundHalfEven(1000 * SeqMax(p), ProbaUnit), 1)

----------------------------------------------------------------------------
\* Category catalog and midpoints

AQI_INFO_literal ==
    [l \in {EncoderClasses[i] : i \in 1..Len(EncoderClasses)} |->
       CASE l = "Good" ->
              [emoji |-> "U+1F7E2", color |-> "#00E400", range |-> "0-50",
               health_tip |-> "Air quality is excellent! Perfect for outdoor activities and exercise."]
         [] l = "Moderate" ->
              [emoji |-> "U+1F7E1", color |-> "#FFFF00", range |-> "51-100",
               health_tip |-> "Air quality is acceptable. Sensitive individuals should consider limiting prolonged outdoor exertion."]
         [] l = "Unhealthy for Sensitive Groups" ->
              [emoji |-> "U+1F7E0", color |-> "#FF7E00", range |-> "101-150",
               health_tip |-> "Sensitive groups should reduce outdoor activities. Children and elderly should stay indoors."]
         [] l = "Unhealthy" ->
              [emoji |-> "U+1F534", color |-> "#FF0000", range |-> "151-200",
               health_tip |-> "Everyone should limit outdoor activities. Wear masks when going outside."]
         [] l = "Very Unhealthy" ->
              [emoji |-> "U+1F7E3", color |-> "#8F3F97", range |-> "201-300",
               health_tip |-> "Health alert! Avoid outdoor activities. Keep windows closed and use air purifiers."]
         [] OTHER ->
              [emoji |-> "U+1F7E4", color |-> "#7E0023", range |-> "301+",
               health_tip |-> "Emergency conditions! Stay indoors at all times. Seek medical attention if needed."]]

\* A lookup whose default is the first entry.
CatalogLookupFirstDefault(aqi_class) ==
    DictGet(AQI_INFO, aqi_class, AQI_INFO["Good"])

\* AQI_INFO.get(aqi_class, AQI_INFO['Moderate'])
CatalogLookup(aqi_class) == DictGet(AQI_INFO, aqi_class, AQI_INFO["Moderate"])

midpoints ==
    [l \in {EncoderClasses[i] : i \in 1..Len(EncoderClasses)} |->
       CASE l = "Good" -> 25
         [] l = "Moderate" -> 75
         [] l = "Unhealthy for Sensitive Groups" -> 125
         [] l = "Unhealthy" -> 175
         [] l = "Very Unhealthy" -> 250
         [] OTHER -> 350]

\* A midpoint whose default is the Moderate midpoint.
get_aqi_value_default_moderate(aqi_class) ==
    DictGet(midpoints, aqi_class, midpoints["Moderate"])

get_aqi_value_from_class(aqi_class) == DictGet(midpoints, aqi_class, 100)

----------------------------------------------------------------------------
\* The code the two prediction paths share, statement by statement

Prefix(xs, n) == SubSeq(xs, 1, n)

\* pollutants = [float(data['pm25']), ..., float(data['o3'])]: the
\* coercions run in order and the first failure raises.  data[key] raises
\* KeyError for a key the dict does not hold, before float is called on it.
CoercePollutants(data) ==
    LET n == Len(required_fields)
        fl == [i \in 1..n |-> IF required_fields[i] \in DOMAIN data
                              THEN PyFloat(data[required_fields[i]])
                              ELSE Raise("KeyError",
                                         "'" \o required_fields[i] \o "'")]
        calls == [i \in 1..n |-> "float:" \o required_fields[i]]
        bad == {i \in 1..n : ~fl[i].ok}
        first == CHOOSE i \in bad : \A j \in bad : i <= j
    IN  IF bad = {}
        THEN [ok |-> TRUE, val |-> [i \in 1..n |-> fl[i].val], events |-> calls]
        ELSE [ok |-> FALSE, exc |-> fl[first].exc, msg |-> fl[first].msg,
              events |-> IF fl[first].exc = "KeyError"
                         THEN Prefix(calls, first - 1)
                         ELSE Prefix(calls, first)]

\* features = np.array([pollutants]) up to the confidence: the label and the
\* confidence, or the exception of the first call that raises.  events lists
\* the calls made: a call on a None artifact raises before it is made.
ClassifyFailure(r, made) ==
    [ok |-> FALSE, exc |-> r.exc, msg |-> r.msg,
     events |-> IF r.exc = "AttributeError"
                THEN Prefix(made, Len(made) - 1) ELSE made]

Classify(pollutants, out) ==
    Let(np_array(PyListOf(PyListOfScalars(pollutants))), LAMBDA features :
    Let(model_predict(features, out), LAMBDA prediction :
      IF ~prediction.ok
      THEN ClassifyFailure(prediction, <<"model.predict">>)
      ELSE
    Let(model_predict_proba(features, out), LAMBDA prediction_proba :
      IF ~prediction_proba.ok
      THEN ClassifyFailure(prediction_proba,
                           <<"model.predict", "model.predict_proba">>)
      ELSE
    Let(inverse_transform(<<prediction.val[1]>>), LAMBDA decoded :
      IF ~decoded.ok
      THEN ClassifyFailure(decoded,
                           <<"model.predict", "model.predict_proba",
                             "label_encoder.inverse_transform">>)
      ELSE
    Let(model_predict_proba(PyListOf(features), out), LAMBDA again :
      IF ~again.ok
      THEN ClassifyFailure(again,
                           <<"model.predict", "model.predict_proba",
                             "label_encoder.inverse_transform",
                             "model.predict_proba">>)
      ELSE [ok |-> TRUE, aqi_class |-> decoded.val[1],
            confidence |-> Confidence(again.val[1]),
            events |-> <<"model.predict", "model.predict_proba",
                         "label_encoder.inverse_transform",
                         "model.predict_proba">>])))))

\* The dict of a successful prediction.
PredictionBody(aqi_class, confidence, pollutants) ==
    LET aqi_value == get_aqi_value_from_class(aqi_class)
        aqi_info == CatalogLookup(aqi_class)
    IN  [success |-> TRUE,
         aqi_class |-> aqi_class,
         aqi_value |-> aqi_value,
         confidence |-> confidence,
         emoji |-> aqi_info.emoji,
         color |-> aqi_info.color,
         range |-> aqi_info.range,
         health_tip |-> aqi_info.health_tip,
         pollutants |-> [i \in 1..Len(required_fields) |-> pollutants[i]],
         timestamp |-> "datetime.now().isoformat()"]

Response(status, body, evs) == [status |-> status, body |-> body, events |-> evs]

----------------------------------------------------------------------------
\* POST /predict

\* A validation loop that stops one field short.
MissingFieldsSkipLast(data) ==
    {i \in 1..(Len(required_fields) - 1) : required_fields[i] \notin DOMAIN data}

\* The required fields absent from data, by position.
MissingFields(data) ==
    {i \in 1..Len(required_fields) : required_fields[i] \notin DOMAIN data}

\* The first required field absent from data, in the order of the loop.
FirstMissing(data) ==
    required_fields[CHOOSE i \in MissingFields(data) :
                        \A j \in MissingFields(data) : i <= j]

predict_aqi(data, out) ==
    IF ~Truthy(model) \/ ~Truthy(label_encoder) \/ ~Truthy(feature_names)
    THEN Response(500, [error |-> "ML models not loaded properly"], <<>>)
    ELSE IF MissingFields(data) # {}
    THEN Response(400,
                  [error |-> "Missing required field: " \o FirstMissing(data)],
                  <<>>)
    ELSE
    Let(CoercePollutants(data), LAMBDA co :
      IF ~co.ok
      THEN Response(500, [error |-> "Prediction failed: " \o co.msg], co.events)
      ELSE
    Let(Classify(co.val, out), LAMBDA cl :
      IF ~cl.ok
      THEN Response(500, [error |-> "Prediction failed: " \o cl.msg],
                    co.events \o cl.events)
      ELSE Response(200, PredictionBody(cl.aqi_class, cl.confidence, co.val),
                    co.events \o cl.events)))

----------------------------------------------------------------------------
\* GET /live-aqi

predict_aqi_internal(data, out) ==
    Let(CoercePollutants(data), LAMBDA co :
      IF ~co.ok
      THEN [body |-> [error |-> "Internal prediction failed: " \o co.msg],
            events |-> co.events]
      ELSE
    Let(Classify(co.val, out), LAMBDA cl :
      IF ~cl.ok
      THEN [body |-> [error |-> "Internal prediction failed: " \o cl.msg],
            events |-> co.events \o cl.events]
      ELSE [body |-> PredictionBody(cl.aqi_class, cl.confidence, co.val),
            events |-> co.events \o cl.events]))

\* A key check that is never true.
KeyCheckOmitted(api_key) == FALSE

\* if not api_key
KeyMissing(api_key) == ~api_key.set \/ api_key.val = ""

\* air_data['list'][0]['components'] of the provider's body.
Components(payload) ==
    CASE payload.shape = "not_json" ->
           Raise("JSONDecodeError", "Expecting value: line 1 column 1 (char 0)")
      [] payload.shape = "no_list" -> Raise("KeyError", "'list'")
      [] payload.shape = "empty_list" ->
           Raise("IndexError", "list index out of range")
      [] payload.shape = "no_components" -> Raise("KeyError", "'components'")
      [] OTHER -> Ok(payload.components)

\* A conversion that reads pm25 under the canonical name.
ToPredictionDataSameNames(pollutants) ==
    [f \in {required_fields[i] : i \in 1..Len(required_fields)} |->
       DictGet(pollutants, f, JNum(0, 0))]

\* Convert to our expected format.
ToPredictionData(pollutants) ==
    [f \in {required_fields[i] : i \in 1..Len(required_fields)} |->
       CASE f = "pm25" -> DictGet(pollutants, "pm2_5", JNum(0, 0))
         [] f = "pm10" -> DictGet(pollutants, "pm10", JNum(0, 0))
         [] f = "no2" -> DictGet(pollutants, "no2", JNum(0, 0))
         [] f = "so2" -> DictGet(pollutants, "so2", JNum(0, 0))
         [] f = "co" -> DictGet(pollutants, "co", JNum(0, 0))
         [] OTHER -> DictGet(pollutants, "o3", JNum(0, 0))]

\* A status check that lets client errors through.
FetchFailedOnServerErrorOnly(outcome) == outcome.status_code >= 500

\* if response.status_code != 200
FetchFailed(outcome) == outcome.status_code # 200

\* get_live_aqi from the return of requests.get on: the response, the calls
\* made and the dict handed to predict_aqi_internal (None when it is not
\* called).
get_live_aqi_after(outcome, out) ==
    IF outcome.kind = "exception"
    THEN [resp |-> Response(500,
                     [error |-> "Live AQI fetch failed: " \o outcome.msg], <<>>),
          prediction_data |-> None]
    ELSE IF FetchFailed(outcome)
    THEN [resp |-> Response(500, [error |-> "Failed to fetch live data"], <<>>),
          prediction_data |-> None]
    ELSE
    Let(Components(outcome.payload), LAMBDA pollutants :
      IF ~pollutants.ok
      THEN [resp |-> Response(500,
                       [error |-> "Live AQI fetch failed: " \o pollutants.msg],
                       <<>>),
            prediction_data |-> None]
      ELSE
    Let(ToPredictionData(pollutants.val), LAMBDA arg :
    Let(predict_aqi_internal(arg, out), LAMBDA prediction_response :
    Let([components |-> pollutants.val] @@ prediction_response.body,
        LAMBDA response_data :
      [resp |-> Response(200, response_data, prediction_response.events),
       prediction_data |-> [k |-> "dict", d |-> arg]]))))

----------------------------------------------------------------------------
\* Inputs

FieldSet == {required_fields[i] : i \in 1..Len(required_fields)}
ProviderKeys == {"pm2_5", "pm10", "no2", "so2", "co", "o3"}

\* JSON values a field may hold: whole numbers, a numeric string, a
\* non-numeric string and null.
Values ==
    {JNum(n, 0) : n \in 0..MaxReading}
      \cup {JStr(<<"0", ".", "3">>), JStr(<<"a", "b", "c">>), JNull}

\* A key may also be left out of an object.
Absent == [k |-> "absent"]

\* JSON objects over keys: every key holds the reading 0 except at most
\* MaxVaried keys, each of which holds another value or is left out.
Objects(keys) ==
    LET varied == {S \in SUBSET keys : Cardinality(S) <= MaxVaried}
        choices == UNION {[S -> (Values \ {JNum(0, 0)}) \cup {Absent}] :
                            S \in varied}
    IN  {[f \in {x \in keys : x \notin DOMAIN g \/ g[x] # Absent} |->
            IF f \in DOMAIN g THEN g[f] ELSE JNum(0, 0)] : g \in choices}

ApiKeys == {[set |-> FALSE, val |-> ""], [set |-> TRUE, val |-> ""],
            [set |-> TRUE, val |-> "0123abc"]}

SamplePayload ==
    [shape |-> "ok",
     components |-> [k \in ProviderKeys |-> JNum(1, 0)]]

BrokenPayloads ==
    {[shape |-> "not_json"], [shape |-> "no_list"], [shape |-> "empty_list"],
     [shape |-> "no_components"]}

ProviderOutcomes ==
    {[kind |-> "exception", msg |-> "Connection refused"]}
      \cup {[kind |-> "response", status_code |-> 200, payload |-> p] :
              p \in BrokenPayloads}
      \cup {[kind |-> "response", status_code |-> 200,
             payload |-> [shape |-> "ok", components |-> c]] :
              c \in Objects(ProviderKeys)}
      \cup {[kind |-> "response", status_code |-> sc, payload |-> p] :
              sc \in {401, 503}, p \in BrokenPayloads \cup {SamplePayload}}

Labels == {EncoderClasses[i] : i \in 1..Len(EncoderClasses)}
ProbeLabels == Labels \cup {"unknown-label", "good", ""}

AnyOutput == CHOOSE o \in ClassifierOutputs : TRUE

\* The classifier's answer is drawn only when the classifier is asked.
Answers(evs) ==
    IF \E i \in 1..Len(evs) : evs[i] = "model.predict"
    THEN ClassifierOutputs ELSE {AnyOutput}

NoRequest == [kind |-> "none"]
NoProvider == [kind |-> "none"]
NoResponse == [status |-> 0, body |-> None]

----------------------------------------------------------------------------
\* State machine

Init ==
    /\ model = None
    /\ label_encoder = None
    /\ feature_names = None
    /\ AQI_INFO = AQI_INFO_literal
    /\ pc = "boot"
    /\ req = NoRequest
    /\ provider = NoProvider
    /\ prediction_data = None
    /\ events = <<>>
    /\ resp = NoResponse
    /\ ret = None

\* Module-level loading: the three joblib.load calls run in order inside one
\* try; when any of them raises, all three globals are set to None.
LoadModels ==
    /\ pc = "boot"
    /\ \E failing \in {"none", "model", "label_encoder", "feature_names"} :
         IF failing = "none"
         THEN /\ model' = Loaded("model")
              /\ label_encoder' = Loaded("label_encoder")
              /\ feature_names' = Loaded("feature_names")
         ELSE /\ model' = None
              /\ label_encoder' = None
              /\ feature_names' = None
    /\ pc' = "idle"
    /\ UNCHANGED <<AQI_INFO, req, provider, prediction_data, events, resp, ret>>

\* POST /predict with a JSON object as body.
Predict ==
    /\ pc = "idle"
    /\ \E data \in Objects(FieldSet) :
         \E out \in Answers(predict_aqi(data, AnyOutput).events) :
           \E r \in {predict_aqi(data, out)} :
           /\ req' = [kind |-> "predict", data |-> data]
           /\ resp' = [status |-> r.status, body |-> r.body]
           /\ events' = r.events
    /\ pc' = "done"
    /\ UNCHANGED <<model, label_encoder, feature_names, AQI_INFO, provider,
                   prediction_data, ret>>

\* GET /live-aqi up to requests.get: the key check, then the request.
LiveStart ==
    /\ pc = "idle"
    /\ \E api_key \in ApiKeys :
         /\ req' = [kind |-> "live", api_key |-> api_key]
         /\ IF KeyMissing(api_key)
            THEN /\ resp' = [status |-> 500,
                             body |-> [error |-> "OpenWeatherMap API key missing"]]
                 /\ events' = <<>>
                 /\ pc' = "done"
            ELSE /\ resp' = NoResponse
                 /\ events' = <<"requests.get">>
                 /\ pc' = "awaiting_provider"
    /\ UNCHANGED <<model, label_encoder, feature_names, AQI_INFO, provider,
                   prediction_data, ret>>

\* requests.get returns or raises, and get_live_aqi runs to its return.
ProviderResponds ==
    /\ pc = "awaiting_provider"
    /\ \E outcome \in ProviderOutcomes :
         \E out \in Answers(get_live_aqi_after(outcome, AnyOutput).resp.events) :
           \E r \in {get_live_aqi_after(outcome, out)} :
           /\ provider' = outcome
           /\ prediction_data' = r.prediction_data
           /\ resp' = [status |-> r.resp.status, body |-> r.resp.body]
           /\ events' = events \o r.resp.events
    /\ pc' = "done"
    /\ UNCHANGED <<model, label_encoder, feature_names, AQI_INFO, req, ret>>

\* A direct evaluation of AQI_INFO.get(label, AQI_INFO['Moderate']).
LookupCall ==
    /\ pc = "idle"
    /\ \E label \in ProbeLabels :
         /\ req' = [kind |-> "lookup", label |-> label]
         /\ ret' = [k |-> "value", v |-> CatalogLookup(label)]
    /\ pc' = "done"
    /\ UNCHANGED <<model, label_encoder, feature_names, AQI_INFO, provider,
                   prediction_data, events, resp>>

\* A direct call of get_aqi_value_from_class(label).
MidpointCall ==
    /\ pc = "idle"
    /\ \E label \in ProbeLabels :
         /\ req' = [kind |-> "midpoint", label |-> label]
         /\ ret' = [k |-> "value", v |-> get_aqi_value_from_class(label)]
    /\ pc' = "done"
    /\ UNCHANGED <<model, label_encoder, feature_names, AQI_INFO, provider,
                   prediction_data, events, resp>>

\* The response is sent and the request's data is discarded.
Deliver ==
    /\ pc = "done"
    /\ pc' = "idle"
    /\ req' = NoRequest
    /\ provider' = NoProvider
    /\ prediction_data' = None
    /\ events' = <<>>
    /\ resp' = NoResponse
    /\ ret' = None
    /\ UNCHANGED <<model, label_encoder, feature_names, AQI_INFO>>

Next ==
    \/ LoadModels
    \/ Predict
    \/ LiveStart
    \/ ProviderResponds
    \/ LookupCall
    \/ MidpointCall
    \/ Deliver

Spec == Init /\ [][Next]_vars

----------------------------------------------------------------------------
\* Vocabulary of the properties

AllLoaded == Truthy(model) /\ Truthy(label_encoder) /\ Truthy(feature_names)

Served(kind) == pc = "done" /\ req.kind = kind

\* A value that is a number or a numeric string.
IsNumeric(v) == v.k = "num" \/ (v.k = "str" /\ ParseFloat(v.s).ok)

\* All six fields present, each numeric.
ValidVector(d) == DOMAIN d = FieldSet /\ \A f \in FieldSet : IsNumeric(d[f])

RECURSIVE Pow10(_)
Pow10(e) == IF e = 0 THEN 1 ELSE 10 * Pow10(e - 1)

\* The body of a successful prediction: success, a label of the six and a
\* confidence within [0, 100].
IsPrediction(body) ==
    /\ "success" \in DOMAIN body
    /\ body.success = TRUE
    /\ body.aqi_class \in Labels
    /\ body.confidence.m >= 0
    /\ body.confidence.m <= 100 * Pow10(body.confidence.e)

\* The classification step of the live path was entered.
LiveClassified == Served("live") /\ prediction_data # None

ClassifierCalls ==
    {i \in 1..Len(events) :
       events[i] \in {"model.predict", "model.predict_proba"}}

Coercions ==
    {i \in 1..Len(events) :
       \E f \in FieldSet : events[i] = "float:" \o f}

----------------------------------------------------------------------------
\* C1: with the three artifacts loaded, every six-field numeric input is
\* answered with a successful prediction whose label is one of the six and
\* whose confidence lies in [0, 100], on POST /predict and on the
\* classification of the live path.
C1_ValidInputIsClassified ==
    /\ (Served("predict") /\ AllLoaded /\ ValidVector(req.data))
         => (resp.status = 200 /\ IsPrediction(resp.body))
    /\ (LiveClassified /\ AllLoaded /\ ValidVector(prediction_data.d))
         => (resp.status = 200 /\ IsPrediction(resp.body))

\* C2: when the artifacts failed to load, every inference call, direct or
\* live, ends in a 5xx response that carries no inference result.
C2_UnloadedIsServiceUnavailable ==
    (~AllLoaded /\ (Served("predict") \/ LiveClassified))
      => (resp.status >= 500 /\ "success" \notin DOMAIN resp.body)

\* C3: a classify input lacking exactly one required field is answered 400
\* with a message naming that field, and no value has been coerced, whatever
\* the present fields hold.
C3_MissingFieldNamedBeforeCoercion ==
    (Served("predict") /\ AllLoaded
       /\ Cardinality(FieldSet \ DOMAIN req.data) = 1)
      => \E f \in FieldSet \ DOMAIN req.data :
           /\ resp.status = 400
           /\ resp.body = [error |-> "Missing required field: " \o f]
           /\ Coercions = {}

C3_Witness ==
    /\ Served("predict") /\ AllLoaded
    /\ FieldSet \ DOMAIN req.data = {"so2"}
    /\ req.data["pm25"] = JStr(<<"a", "b", "c">>)
    /\ resp.status = 400

\* C4: a classify input with all six fields, one of them not coercible to a
\* number, is answered with a 4xx response.
C4_NonNumericIsClientError ==
    (Served("predict") /\ AllLoaded /\ DOMAIN req.data = FieldSet
       /\ \E f \in FieldSet : ~IsNumeric(req.data[f]))
      => (resp.status >= 400 /\ resp.status <= 499)

\* C5: after a provider response with a status other than 200 the live
\* request ends in a 5xx error and the classifier is never invoked.
C5_Non200NeverClassifies ==
    (req.kind = "live" /\ provider.kind = "response"
       /\ provider.status_code # 200)
      => /\ pc = "done"
         /\ resp.status >= 500
         /\ "error" \in DOMAIN resp.body
         /\ ClassifierCalls = {}
         /\ Coercions = {}
         /\ prediction_data = None

C5_Witness ==
    /\ Served("live")
    /\ provider.kind = "response"
    /\ provider.status_code = 503
    /\ provider.payload = SamplePayload
    /\ AllLoaded
    /\ resp.status = 500

\* C6: a live request without an API key ends in a 5xx error and the
\* provider is never called: a call to the provider implies a key.
C6_NoKeyNoRequest ==
    LET noKey == ~req.api_key.set \/ req.api_key.val = ""
        called == \E i \in 1..Len(events) : events[i] = "requests.get"
    IN  req.kind = "live"
          => /\ noKey => /\ pc = "done"
                         /\ resp.status >= 500
                         /\ "error" \in DOMAIN resp.body
                         /\ provider = NoProvider
             /\ called => ~noKey

C6_Witness ==
    /\ Served("live")
    /\ ~req.api_key.set
    /\ resp.status = 500
    /\ events = <<>>

\* C7: the dict handed to classification is built by name: pm25 from the
\* provider's pm2_5, the other five from the same names, 0 for every absent
\* provider key; a 200 response with a components record always reaches
\* classification.
C7_MappingByName ==
    LET key(f) == IF f = "pm25" THEN "pm2_5" ELSE f
        ok200 == /\ req.kind = "live" /\ provider.kind = "response"
                 /\ provider.status_code = 200
                 /\ provider.payload.shape = "ok"
    IN  /\ ok200 => prediction_data # None
        /\ prediction_data # None =>
             /\ ok200
             /\ DOMAIN prediction_data.d = FieldSet
             /\ \A f \in FieldSet :
                  prediction_data.d[f] =
                    IF key(f) \in DOMAIN provider.payload.components
                    THEN provider.payload.components[key(f)]
                    ELSE JNum(0, 0)

C7_Witness ==
    /\ LiveClassified
    /\ DOMAIN provider.payload.components = ProviderKeys \ {"co"}
    /\ provider.payload.components["pm2_5"] = JStr(<<"0", ".", "3">>)
    /\ prediction_data.d["co"] = JNum(0, 0)
    /\ prediction_data.d["pm25"] = JStr(<<"0", ".", "3">>)

\* The display range the catalog holds for a label, Moderate for any other.
C8_ExpectedRange(l) ==
    CASE l = "Good" -> "0-50"
      [] l = "Unhealthy for Sensitive Groups" -> "101-150"
      [] l = "Unhealthy" -> "151-200"
      [] l = "Very Unhealthy" -> "201-300"
      [] l = "Hazardous" -> "301+"
      [] OTHER -> "51-100"

\* C8: catalog lookup is total: each of the six labels yields its own
\* non-empty metadata, any other label yields the Moderate metadata, and the
\* answer for a label is the same in every reachable state.
C8_LookupTotal ==
    /\ \A l \in ProbeLabels :
         LET m == CatalogLookup(l) IN
         /\ DOMAIN m = {"emoji", "color", "range", "health_tip"}
         /\ m.emoji # "" /\ m.color # "" /\ m.range # "" /\ m.health_tip # ""
         /\ m.range = C8_ExpectedRange(l)
         /\ m = AQI_INFO_literal[IF l \in Labels THEN l ELSE "Moderate"]
    /\ \A l1, l2 \in Labels : l1 # l2 => CatalogLookup(l1) # CatalogLookup(l2)
    /\ Served("lookup") =>
         ret = [k |-> "value",
                v |-> AQI_INFO_literal[IF req.label \in Labels
                                       THEN req.label ELSE "Moderate"]]

C8_Witness ==
    /\ Served("lookup")
    /\ req.label = "unknown-label"
    /\ ret.v.range = "51-100"
    /\ ret.v.color = "#FFFF00"

\* The midpoint table as documented.
C9_ExpectedMidpoint(l) ==
    CASE l = "Good" -> 25
      [] l = "Moderate" -> 75
      [] l = "Unhealthy for Sensitive Groups" -> 125
      [] l = "Unhealthy" -> 175
      [] l = "Very Unhealthy" -> 250
      [] l = "Hazardous" -> 350
      [] OTHER -> 100

\* C9: the midpoint is a function of the label alone: 25, 75, 125, 175, 250
\* and 350 for the six labels, 100 for any other; the numeric value of a
\* prediction is the midpoint of its label.
C9_MidpointOfLabel ==
    /\ \A l \in ProbeLabels :
         /\ get_aqi_value_from_class(l) = C9_ExpectedMidpoint(l)
         /\ \A p \in ProbaVectors :
              LET body == PredictionBody(l, Confidence(p),
                                         [i \in 1..Len(required_fields) |->
                                            Normalize(i, 1)])
              IN  body.aqi_class = l /\ body.aqi_value = C9_ExpectedMidpoint(l)
    /\ Served("midpoint") =>
         ret = [k |-> "value", v |-> C9_ExpectedMidpoint(req.label)]
    /\ (pc = "done" /\ req.kind \in {"predict", "live"}
          /\ "success" \in DOMAIN resp.body)
         => resp.body.aqi_value = C9_ExpectedMidpoint(resp.body.aqi_class)

C9_Witness ==
    /\ Served("midpoint")
    /\ req.label = "Hazardous"
    /\ ret.v = 350

\* C10: a response sent with status 200 carries success = true with the
\* full prediction and no error field, on POST /predict and on GET /live-aqi.
C10_SuccessStatusMeansPrediction ==
    (pc = "done" /\ req.kind \in {"predict", "live"} /\ resp.status = 200)
      => /\ "error" \notin DOMAIN resp.body
         /\ {"success", "aqi_class", "aqi_value", "confidence", "emoji",
             "color", "range", "health_tip", "pollutants", "timestamp"}
              \subseteq DOMAIN resp.body
         /\ resp.body.success = TRUE
====
